---- MODULE Spec2Model ----
(***************************************************************************)
(* Gig lifecycle of the GigErn backend (routes/gigs.js, models/Gig.js,     *)
(* models/Payment.js, models/Notification.js).                             *)
(*                                                                         *)
(* One gig document lives in the Gig collection.  Every HTTP request is a  *)
(* handler that awaits the database; between two awaits the handlers of    *)
(* other requests may run.  A handler is modelled by two steps: findById   *)
(* together with the synchronous code that follows it (the checks, the     *)
(* early returns and the changes to the loaded document), and gig.save()   *)
(* together with the rest of the handler.  Notification.create and         *)
(* payment.save() write collections that no handler reads, so they are     *)
(* taken in the step of the handler's gig.save(), in the handler's order.  *)
(*                                                                         *)
(* gig.save() of a loaded document writes the paths the handler modified:  *)
(* $set for changed fields, $push for applications.push, and for a change  *)
(* below an array index ("applications.0.status") the update is guarded by *)
(* the version __v that was loaded; $push increments __v.                  *)
(*                                                                         *)
(* Applications are only ever appended, so the _id of an application is    *)
(* modelled by its position in gig.applications; position 0 is the _id of  *)
(* no application.                                                         *)
(*                                                                         *)
(* Spec is the life of a gig that POST / created with the schema defaults. *)
(* SpecStarted also begins with the gig already in progress, which leaves  *)
(* room for two completes in one behaviour.  SpecCreate is POST / itself,  *)
(* over request bodies that carry more than the validated fields, followed *)
(* by saves that change hourlyRate or duration.  SpecApplied also begins   *)
(* with three applications on the gig.  SpecList is GET / and GET /my/gigs *)
(* over a collection of gigs, one request per behaviour.                   *)
(*                                                                         *)
(* The User collection of routes/auth.js is modelled the same way.         *)
(* SpecOtp is POST /send-otp and POST /verify-otp for one registered user, *)
(* with a clock for the expiry of the OTP; SpecRegister is POST /register  *)
(* with its two saves, the first one an insert under the unique indexes.   *)
(***************************************************************************)
EXTENDS Integers, Sequences, FiniteSets, Bags, TLC

\* Bounds of the model.
MaxOps == 4          \* requests issued in one behaviour
MaxConcurrent == 2   \* requests in flight at the same time
MaxAppLimit == 2     \* largest maxApplications a gig is created with
MaxViews == 2        \* views counted in one behaviour
MaxGigs == 3         \* gigs in the collection the list routes read
MaxPage == 2         \* largest page a list request asks for
MaxLimit == 2        \* largest limit a list request asks for
MaxTicks == 2        \* clock steps of one OTP lifetime each

Workers == {"wA", "wB"}
Stores == {"s1", "s2"}
Null == "null"

VARIABLES
  gig,            \* the stored gig document
  gigs,           \* the Gig collection as the list routes read it
  payments,       \* the Payment collection
  notifications,  \* the Notification collection
  reqs,           \* the requests in flight, a bag
  last,           \* the request answered last, with its response
  nOps,           \* requests issued so far
  users,          \* the User collection
  now,            \* the clock, in milliseconds
  compared,       \* verifyOTP calls that compared a candidate with the
                  \* stored code since that code was stored
  verified        \* whether verifyOTP returned valid since generateOTP
                  \* was last called

vars == <<gig, gigs, payments, notifications, reqs, last, nOps,
          users, now, compared, verified>>

\* What the gig routes leave alone, and what the auth routes leave alone.
authVars == <<users, now, compared, verified>>
gigVars == <<gig, gigs, payments, notifications>>

\* Response messages of routes/gigs.js.
MsgNotOpen == "Gig is not open for applications"
MsgAlreadyApplied == "You have already applied for this gig"
MsgMaxReached == "Maximum applications reached for this gig"
MsgApplied == "Application submitted successfully"
MsgApplyFailed == "Failed to apply for gig"
MsgNotManager == "Not authorized to manage this gig"
MsgAppNotFound == "Application not found"
MsgResolved(action) ==
  IF action = "accept" THEN "Application accepted successfully"
  ELSE "Application rejected successfully"
MsgManageFailed == "Failed to manage application"
MsgNotStarter == "Not authorized to start this gig"
MsgNotAssigned == "Gig must be assigned before starting"
MsgStarted == "Gig started successfully"
MsgStartFailed == "Failed to start gig"
MsgNotCompleter == "Not authorized to complete this gig"
MsgNotInProgress == "Gig must be in progress to complete"
MsgCompleted == "Gig completed successfully"
MsgCompleteFailed == "Failed to complete gig"
MsgViewed == "gig"   \* GET /:id answers with the document, no message

Response(status, message) == [status |-> status, message |-> message]
NoResponse == Response(0, "")
Proceed == Response(0, "proceed")

\* A gig as new Gig(gigData) followed by calculateTotalAmount leaves it:
\* the schema defaults for worker, status, applications, views.
NewGig(store, hourlyRate, duration, maxApplications) ==
  [store |-> store, worker |-> Null, status |-> "open",
   applications |-> <<>>,
   assignedAt |-> Null, startedAt |-> Null, completedAt |-> Null,
   maxApplications |-> maxApplications, views |-> 0,
   hourlyRate |-> hourlyRate, duration |-> duration,
   totalAmount |-> hourlyRate * duration, v |-> 0]

\* ---- a loaded document and the changes a handler makes to it ----

\* Gig.findById: the document, no path modified yet.
Load(db) == [doc |-> db, dirty |-> {}, appDirty |-> {}, pushed |-> 0]

\* doc.path = val: the path is marked modified when the value differs.
SetPath(m, path, val) ==
  [m EXCEPT !.doc[path] = val,
            !.dirty = IF m.doc[path] # val THEN @ \cup {path} ELSE @]

\* doc.path = new Date(): a new value, always modified.
SetDate(m, path) ==
  [m EXCEPT !.doc[path] = "set", !.dirty = @ \cup {path}]

\* doc.applications[i].status = val
SetAppStatus(m, i, val) ==
  [m EXCEPT !.doc.applications[i].status = val,
            !.appDirty = IF m.doc.applications[i].status # val
                         THEN @ \cup {i} ELSE @]

\* doc.applications.push(app)
PushApp(m, app) ==
  [m EXCEPT !.doc.applications = Append(@, app), !.pushed = @ + 1]

\* gig.save(): the version guard of the update.
SaveOk(db, m) == m.appDirty = {} \/ db.v = m.doc.v

\* gigSchema.methods.calculateTotalAmount
calculateTotalAmount(m) ==
  SetPath(m, "totalAmount", m.doc.hourlyRate * m.doc.duration)

\* GigPreSave that never recalculates.
GigPreSave_NoRecalculation(m) == m

\* gigSchema.pre('save')
GigPreSave(m) ==
  IF "hourlyRate" \in m.dirty \/ "duration" \in m.dirty
  THEN calculateTotalAmount(m) ELSE m

\* SaveGig that writes the whole loaded document in place of the modified
\* paths.
SaveGig_WholeDocument(db, m) ==
  IF ~SaveOk(db, m) THEN db
  ELSE [m.doc EXCEPT !.v = IF m.pushed > 0 THEN db.v + 1 ELSE db.v]

\* gig.save(): the stored document after the pre('save') hook and the update.
SaveGig(db, loaded) ==
  IF ~SaveOk(db, loaded) THEN db
  ELSE
    LET m == GigPreSave(loaded) IN
    [db EXCEPT
      !.store = IF "store" \in m.dirty THEN m.doc.store ELSE @,
      !.worker = IF "worker" \in m.dirty THEN m.doc.worker ELSE @,
      !.status = IF "status" \in m.dirty THEN m.doc.status ELSE @,
      !.assignedAt = IF "assignedAt" \in m.dirty THEN m.doc.assignedAt ELSE @,
      !.startedAt = IF "startedAt" \in m.dirty THEN m.doc.startedAt ELSE @,
      !.completedAt = IF "completedAt" \in m.dirty THEN m.doc.completedAt ELSE @,
      !.views = IF "views" \in m.dirty THEN m.doc.views ELSE @,
      !.hourlyRate = IF "hourlyRate" \in m.dirty THEN m.doc.hourlyRate ELSE @,
      !.duration = IF "duration" \in m.dirty THEN m.doc.duration ELSE @,
      !.totalAmount = IF "totalAmount" \in m.dirty THEN m.doc.totalAmount ELSE @,
      !.applications =
         [i \in 1..Len(db.applications) |->
            IF i \in m.appDirty
            THEN [db.applications[i] EXCEPT !.status = m.doc.applications[i].status]
            ELSE db.applications[i]]
         \o SubSeq(m.doc.applications,
                   Len(m.doc.applications) - m.pushed + 1,
                   Len(m.doc.applications)),
      !.v = IF m.pushed > 0 THEN @ + 1 ELSE @]

\* ---- the handlers: checks and changes between findById and the next await ----

HasApplied(doc, w) ==
  \E i \in DOMAIN doc.applications : doc.applications[i].worker = w

\* ApplyCheck without the status check.
ApplyCheck_NoStatusCheck(doc, w) ==
  IF HasApplied(doc, w) THEN Response(400, MsgAlreadyApplied)
  ELSE IF Len(doc.applications) >= doc.maxApplications
       THEN Response(400, MsgMaxReached)
  ELSE Proceed

\* ApplyCheck without the existingApplication check.
ApplyCheck_NoDuplicateCheck(doc, w) ==
  IF doc.status # "open" THEN Response(400, MsgNotOpen)
  ELSE IF Len(doc.applications) >= doc.maxApplications
       THEN Response(400, MsgMaxReached)
  ELSE Proceed

\* ApplyCheck with > in place of >= in the maxApplications check.
ApplyCheck_LimitOffByOne(doc, w) ==
  IF doc.status # "open" THEN Response(400, MsgNotOpen)
  ELSE IF HasApplied(doc, w) THEN Response(400, MsgAlreadyApplied)
  ELSE IF Len(doc.applications) > doc.maxApplications
       THEN Response(400, MsgMaxReached)
  ELSE Proceed

\* POST /:id/apply: the checks before the application is added.
ApplyCheck(doc, w) ==
  IF doc.status # "open" THEN Response(400, MsgNotOpen)
  ELSE IF HasApplied(doc, w) THEN Response(400, MsgAlreadyApplied)
  ELSE IF Len(doc.applications) >= doc.maxApplications
       THEN Response(400, MsgMaxReached)
  ELSE Proceed

\* gig.applications.push({worker, message, status: 'pending'})
ApplyModify(m, w) ==
  PushApp(m, [worker |-> w, status |-> "pending"])

\* gig.applications.id(applicationId): its index, 0 when there is none.
AppIndex(doc, appId) ==
  IF appId \in DOMAIN doc.applications THEN appId ELSE 0

\* ResolveCheck without the check of the caller against gig.store.
ResolveCheck_NoStoreCheck(doc, s, appId) ==
  IF AppIndex(doc, appId) = 0 THEN Response(404, MsgAppNotFound)
  ELSE Proceed

\* PUT /:id/applications/:applicationId
ResolveCheck(doc, s, appId) ==
  IF doc.store # s THEN Response(403, MsgNotManager)
  ELSE IF AppIndex(doc, appId) = 0 THEN Response(404, MsgAppNotFound)
  ELSE Proceed

RECURSIVE RejectOthers(_, _, _)
RejectOthers(m, k, i) ==
  IF i > Len(m.doc.applications) THEN m
  ELSE RejectOthers(IF i # k THEN SetAppStatus(m, i, "rejected") ELSE m, k, i + 1)

\* AcceptModify that leaves the other applications as they are.
AcceptModify_NoRejectOthers(m, k) ==
  SetAppStatus(
    SetDate(
      SetPath(SetPath(m, "worker", m.doc.applications[k].worker),
              "status", "assigned"),
      "assignedAt"),
    k, "accepted")

\* AcceptModify that does not assign gig.worker.
AcceptModify_NoWorker(m, k) ==
  RejectOthers(
    SetAppStatus(SetDate(SetPath(m, "status", "assigned"), "assignedAt"),
                 k, "accepted"),
    k, 1)

\* AcceptModify that assigns the store of the gig as its worker.
AcceptModify_WorkerIsStore(m, k) ==
  RejectOthers(
    SetAppStatus(
      SetDate(
        SetPath(SetPath(m, "worker", m.doc.store), "status", "assigned"),
        "assignedAt"),
      k, "accepted"),
    k, 1)

\* The accept branch.
AcceptModify(m, k) ==
  RejectOthers(
    SetAppStatus(
      SetDate(
        SetPath(SetPath(m, "worker", m.doc.applications[k].worker),
                "status", "assigned"),
        "assignedAt"),
      k, "accepted"),
    k, 1)

\* The reject branch.
RejectModify(m, k) == SetAppStatus(m, k, "rejected")

ResolveModify(m, appId, action) ==
  IF action = "accept" THEN AcceptModify(m, AppIndex(m.doc, appId))
  ELSE RejectModify(m, AppIndex(m.doc, appId))

\* PUT /:id/start ; gig.worker.toString() throws when worker is null.
StartCheck(doc, w) ==
  IF doc.worker = Null THEN Response(500, MsgStartFailed)
  ELSE IF doc.worker # w THEN Response(403, MsgNotStarter)
  ELSE IF doc.status # "assigned" THEN Response(400, MsgNotAssigned)
  ELSE Proceed

StartModify(m) == SetDate(SetPath(m, "status", "in-progress"), "startedAt")

\* CompleteCheck without the status check.
CompleteCheck_NoStatusCheck(doc, w) ==
  IF doc.worker = Null THEN Response(500, MsgCompleteFailed)
  ELSE IF doc.worker # w THEN Response(403, MsgNotCompleter)
  ELSE Proceed

\* PUT /:id/complete
CompleteCheck(doc, w) ==
  IF doc.worker = Null THEN Response(500, MsgCompleteFailed)
  ELSE IF doc.worker # w THEN Response(403, MsgNotCompleter)
  ELSE IF doc.status # "in-progress" THEN Response(400, MsgNotInProgress)
  ELSE Proceed

CompleteModify(m) == SetDate(SetPath(m, "status", "completed"), "completedAt")

\* ViewModify that also assigns the populated store back to the document.
ViewModify_StoreModified(m) ==
  SetPath(SetPath(m, "views", m.doc.views + 1), "store", "populated")

\* GET /:id : gig.views += 1 ; populate('store') marks no path modified.
ViewModify(m) == SetPath(m, "views", m.doc.views + 1)

\* new Payment({gig, store, worker, amount}) in PUT /:id/complete
\* paths holds the paths that have a value; the numeric paths that were not
\* given are undefined and read 0 here.
NewPayment(doc) ==
  [gig |-> "g", store |-> doc.store, worker |-> doc.worker,
   amount |-> doc.totalAmount, platformFee |-> 0, workerAmount |-> 0,
   status |-> "pending", paymentMethod |-> Null,
   paths |-> {"gig", "store", "worker", "amount", "status"}]

\* PaymentValid that accepts every payment.
PaymentValid_Always(p) == p.amount >= 0

\* Validation of the required paths of paymentSchema, run by save() before
\* the schema's own pre('save') hook.
PaymentValid(p) ==
  /\ {"gig", "store", "worker", "amount", "platformFee", "workerAmount",
      "paymentMethod"} \subseteq p.paths
  /\ p.amount >= 0
  /\ p.paymentMethod \in {"bank_transfer", "upi", "wallet"}

\* paymentSchema.pre('save'): platformFee = amount * 0.1 and workerAmount =
\* amount - platformFee, neither rounded.  The two are held in tenths of a
\* currency unit, the unit in which a tenth of an integer amount is exact.
PaymentPreSave(p) ==
  [p EXCEPT !.platformFee = p.amount,
            !.workerAmount = 10 * p.amount - p.amount,
            !.paths = @ \cup {"platformFee", "workerAmount"}]

\* Notification.create
NewNotification(recipient, type) == [recipient |-> recipient, type |-> type]

\* ---- POST / : creating the gig ----

MsgValidation == "Validation errors"
MsgCreated == "Gig created successfully"
MsgCreateFailed == "Failed to create gig"

Categories == {"retail", "delivery", "warehouse", "customer-service", "other"}
GigStatuses == {"open", "assigned", "in-progress", "completed", "cancelled"}
MinHourlyRate == 50
DefaultMaxApplications == 10
MsPerHour == 1000 * 60 * 60

\* startTime and endTime of a request body: the milliseconds new Date(...)
\* gives for the string, or NotATime for a string that is not ISO 8601.
NotATime == -1
TimeStrings == {NotATime, 0, MsPerHour}

\* The schema paths a request body may carry besides the validated ones,
\* with the value it carries for each.
GivenValue ==
  [status |-> "completed", worker |-> "wB",
   applications |-> <<[worker |-> "wB", status |-> "accepted"]>>,
   views |-> 7, maxApplications |-> 1, totalAmount |-> 0, store |-> "s2"]

\* req.body of POST /.  textOk: title, description and the location fields
\* pass their validators.
Bodies ==
  [textOk : BOOLEAN, category : {"retail", "bogus"},
   startTime : TimeStrings, endTime : TimeStrings,
   hourlyRate : {MinHourlyRate - 1, MinHourlyRate},
   given : SUBSET DOMAIN GivenValue]

\* The express-validator chain of POST /: validationResult(req) has errors.
ValidationErrors(body) ==
  \/ ~body.textOk
  \/ body.category \notin Categories
  \/ body.startTime = NotATime
  \/ body.endTime = NotATime
  \/ body.hourlyRate < MinHourlyRate

\* The document no findById finds.
NoGig == [NewGig(Null, 0, 0, 0) EXCEPT !.status = Null]

\* new Gig({...req.body, store: req.user._id, duration: ...}): the paths of
\* the body, store and duration overridden, the schema defaults for the
\* paths that were not given; dirty holds the paths that have a value.
NewDoc(caller, body) ==
  LET Given(path, default) ==
        IF path \in body.given THEN GivenValue[path] ELSE default
      duration == (body.endTime - body.startTime) \div MsPerHour
  IN [doc |-> [NewGig(caller, body.hourlyRate, duration,
                      Given("maxApplications", DefaultMaxApplications))
                 EXCEPT !.status = Given("status", "open"),
                        !.worker = Given("worker", Null),
                        !.applications = Given("applications", <<>>),
                        !.views = Given("views", 0),
                        !.totalAmount = Given("totalAmount", 0)],
      dirty |-> {"store", "duration", "hourlyRate", "status", "worker",
                 "applications", "views", "maxApplications"}
                \cup (body.given \cap {"totalAmount"}),
      appDirty |-> {}, pushed |-> 0]

\* Validation of a new gig document, run by save() before the schema's own
\* pre('save') hook: the required paths, min and enum.
NewDocValid(m) ==
  /\ {"store", "duration", "hourlyRate", "totalAmount"} \subseteq m.dirty
  /\ m.doc.hourlyRate >= 0
  /\ m.doc.status \in GigStatuses

\* POST /: the response and the stored document.
CreateGigResult(caller, body) ==
  IF ValidationErrors(body)
  THEN [resp |-> Response(400, MsgValidation), gig |-> NoGig]
  ELSE LET m == NewDoc(caller, body) IN
       IF ~NewDocValid(m)
       THEN [resp |-> Response(500, MsgCreateFailed), gig |-> NoGig]
       ELSE [resp |-> Response(201, MsgCreated),
             gig |-> calculateTotalAmount(GigPreSave(m)).doc]

\* A POST / that was received.
CreateRequest(caller, body) ==
  [op |-> "create", user |-> caller, appId |-> 0, action |-> "",
   readStatus |-> "", body |-> body]

\* ---- GET / and GET /my/gigs : listing the collection ----

MsgListed == "gigs"   \* the list routes answer with data, no message

\* The documents of the collection as the list routes filter them.  The
\* position of a document in the collection is its _id and its order of
\* creation (createdAt).
GigDocs ==
  {[status |-> st, category |-> ca, city |-> ci, store |-> s, worker |-> w] :
     st \in {"open"}, ca \in {"retail", "delivery"}, ci \in {"Pune", "Mumbai"},
     s \in {"s1"}, w \in {Null}}
  \cup
  {[status |-> st, category |-> ca, city |-> ci, store |-> s, worker |-> w] :
     st \in {"assigned"}, ca \in {"retail"}, ci \in {"Pune"},
     s \in Stores, w \in Workers}

\* A query parameter that was not given.
Absent == "absent"

\* req.query of GET /: page and limit as the numbers their strings denote.
ListQueries ==
  [status : {Absent, "assigned"}, category : {Absent, "retail"},
   city : {Absent, "Pune"}, sortOrder : {"desc", "asc"},
   page : 1..MaxPage, limit : 0..MaxLimit]

\* req.query of GET /my/gigs.
MyGigsQueries ==
  [status : {Absent, "assigned"}, page : 1..MaxPage, limit : 0..MaxLimit]

\* filter of GET /
ListFilter(query, doc) ==
  /\ doc.status = (IF query.status = Absent THEN "open" ELSE query.status)
  /\ query.category # Absent => doc.category = query.category
  /\ query.city # Absent => doc.city = query.city

\* MyGigsFilter without the condition on the caller.
MyGigsFilter_StatusOnly(userType, user, query, doc) ==
  query.status # Absent => doc.status = query.status

\* filter of GET /my/gigs
MyGigsFilter(userType, user, query, doc) ==
  /\ IF userType = "store" THEN doc.store = user ELSE doc.worker = user
  /\ query.status # Absent => doc.status = query.status

\* Gig.find(filter): the _ids from i on whose document passes the filter,
\* in the order of creation; passes[k] tells whether document k passes.
RECURSIVE Find(_, _)
Find(passes, i) ==
  IF i > Len(passes) THEN <<>>
  ELSE (IF passes[i] THEN <<i>> ELSE <<>>) \o Find(passes, i + 1)

Reverse(seq) == [i \in 1..Len(seq) |-> seq[Len(seq) + 1 - i]]

\* .sort({createdAt: order})
SortByCreatedAt(ids, order) == IF order = "desc" THEN Reverse(ids) ELSE ids

\* .skip(skip).limit(limit): a limit of 0 is no limit.
SkipLimit(ids, skip, limit) ==
  SubSeq(ids, skip + 1,
         IF limit # 0 /\ skip + limit < Len(ids) THEN skip + limit ELSE Len(ids))

\* Math.ceil(total / limit); Infinity and NaN, which JSON gives as null,
\* read 0 here.
PageCount(total, limit) ==
  IF limit = 0 THEN 0 ELSE (total + limit - 1) \div limit

\* The answer of a list route: the page of _ids and the pagination.
Listed(matches, order, page, limit) ==
  [status |-> 200, message |-> MsgListed,
   gigs |-> SkipLimit(SortByCreatedAt(matches, order), (page - 1) * limit, limit),
   current |-> page, total |-> PageCount(Len(matches), limit),
   count |-> Len(matches)]

\* GET /
ListGigsResult(coll, query) ==
  Listed(Find([k \in DOMAIN coll |-> ListFilter(query, coll[k])], 1),
         query.sortOrder, query.page, query.limit)

\* GET /my/gigs
MyGigsResult(coll, userType, user, query) ==
  Listed(Find([k \in DOMAIN coll |-> MyGigsFilter(userType, user, query, coll[k])], 1),
         "desc", query.page, query.limit)

\* req.user.userType
UserType(user) == IF user \in Stores THEN "store" ELSE "worker"

\* A GET / or GET /my/gigs that was received.
ListRequest(op, user, query) ==
  [op |-> op, user |-> user, appId |-> 0, action |-> "", readStatus |-> "",
   query |-> query]

\* ---- routes/auth.js and models/User.js ----

\* Response messages of routes/auth.js and of verifyOTP.
MsgPhoneNotRegistered == "Phone number not registered. Please register first."
MsgOtpSent == "OTP sent successfully"
MsgUserNotFound == "User not found"
MsgLoginSuccessful == "Login successful"
MsgNoOtp == "No OTP generated"
MsgOtpExpired == "OTP expired"
MsgTooManyAttempts == "Too many attempts"
MsgInvalidOtp == "Invalid OTP"
MsgOtpVerified == "OTP verified successfully"
MsgUserExists == "User with this phone number or email already exists"
MsgRegistered == "Registration successful. Please verify your phone number."
MsgRegistrationFailed == "Registration failed"

\* Phone numbers and e-mail addresses are sequences of characters.
Digits == {"1", "2", "9"}
RawPhones == {<<"9", "1">>, <<"+", "9", "1">>, <<"9", "2">>, <<"9", "-", "1">>}

\* isMobilePhone('any'): digits after an optional leading plus sign.
IsMobilePhone(raw) ==
  /\ Len(raw) > 0
  /\ \A i \in 1..Len(raw) : raw[i] \in Digits \/ (i = 1 /\ raw[i] = "+")
  /\ \E i \in 1..Len(raw) : raw[i] \in Digits

\* phoneNumber.replace(/\D/g, '')
CleanPhone(raw) == SelectSeq(raw, LAMBDA c : c \in Digits)

\* The code generateOTP issues, its lifetime and the attempts verifyOTP
\* allows.
FixedOtp == "123456"
OtpLifetimeMs == 10 * 60 * 1000
MaxOtpAttempts == 3
OtpLength == 6

\* The codes a client sends: the right one, a wrong one, one that is too
\* short.
CandidateOtps == {FixedOtp, "000000", "12345"}

\* user.otp when no code is stored: attempts has its default.
NoOtp == [code |-> Null, expiresAt |-> NotATime, attempts |-> 0]

\* A stored user.
NewUser(phoneNumber, email) ==
  [phoneNumber |-> phoneNumber, email |-> email, otp |-> NoOtp,
   isPhoneVerified |-> FALSE]

\* User.findOne: the document, no path modified yet.
LoadUser(db) == [doc |-> db, dirty |-> {}]

\* userSchema.methods.generateOTP at time t
generateOTP(m, t) ==
  [m EXCEPT !.doc.otp = [code |-> FixedOtp, expiresAt |-> t + OtpLifetimeMs,
                          attempts |-> 0],
            !.dirty = (@ \ {"otp.attempts"}) \cup {"otp"}]

\* The result of verifyOTP, with the document it leaves; compared tells
\* whether the candidate was compared with the stored code.
OtpResult(m, valid, message, comp) ==
  [m |-> m, valid |-> valid, message |-> message, compared |-> comp]

\* verifyOTP without the limit on attempts.
verifyOTP_NoAttemptLimit(m, candidateOTP, t) ==
  IF m.doc.otp.code = Null THEN OtpResult(m, FALSE, MsgNoOtp, FALSE)
  ELSE IF m.doc.otp.expiresAt < t THEN OtpResult(m, FALSE, MsgOtpExpired, FALSE)
  ELSE
    LET m1 == [m EXCEPT !.doc.otp.attempts = @ + 1,
                        !.dirty = IF "otp" \in @ THEN @ ELSE @ \cup {"otp.attempts"}]
    IN IF m1.doc.otp.code # candidateOTP
       THEN OtpResult(m1, FALSE, MsgInvalidOtp, TRUE)
       ELSE OtpResult([m1 EXCEPT !.doc.otp = NoOtp,
                                 !.dirty = (@ \ {"otp.attempts"}) \cup {"otp"}],
                      TRUE, MsgOtpVerified, TRUE)

\* userSchema.methods.verifyOTP at time t
verifyOTP(m, candidateOTP, t) ==
  IF m.doc.otp.code = Null THEN OtpResult(m, FALSE, MsgNoOtp, FALSE)
  ELSE IF m.doc.otp.expiresAt < t THEN OtpResult(m, FALSE, MsgOtpExpired, FALSE)
  ELSE IF m.doc.otp.attempts >= MaxOtpAttempts
  THEN OtpResult(m, FALSE, MsgTooManyAttempts, FALSE)
  ELSE
    LET m1 == [m EXCEPT !.doc.otp.attempts = @ + 1,
                        !.dirty = IF "otp" \in @ THEN @ ELSE @ \cup {"otp.attempts"}]
    IN IF m1.doc.otp.code # candidateOTP
       THEN OtpResult(m1, FALSE, MsgInvalidOtp, TRUE)
       ELSE OtpResult([m1 EXCEPT !.doc.otp = NoOtp,
                                 !.dirty = (@ \ {"otp.attempts"}) \cup {"otp"}],
                      TRUE, MsgOtpVerified, TRUE)

\* user.save() of a loaded user: $set of otp or of otp.attempts, $unset of
\* otp when it was cleared, $set of isPhoneVerified.
SaveUser(db, m) ==
  [db EXCEPT
    !.otp = IF "otp" \in m.dirty THEN m.doc.otp
            ELSE IF "otp.attempts" \in m.dirty
            THEN [@ EXCEPT !.attempts = m.doc.otp.attempts]
            ELSE @,
    !.isPhoneVerified =
       IF "isPhoneVerified" \in m.dirty THEN m.doc.isPhoneVerified ELSE @]

\* User.findOne({phoneNumber}): the position of the first user with this
\* phone number, 0 when there is none.
FindByPhone(coll, phone) ==
  LET ids == Find([i \in 1..Len(coll) |-> coll[i].phoneNumber = phone], 1)
  IN IF ids = <<>> THEN 0 ELSE ids[1]

\* ---- requests ----

\* A request that has read the document and waits for its gig.save().
Pending(op, user, appId, action, m0, m) ==
  [op |-> op, user |-> user, appId |-> appId, action |-> action,
   readStatus |-> m0.doc.status, m |-> m]

\* res.json(...) of request q.
Answer(q, resp) ==
  [op |-> q.op, user |-> q.user, appId |-> q.appId, action |-> q.action,
   readStatus |-> q.readStatus, resp |-> resp]

NoAnswer == [op |-> "", user |-> Null, appId |-> 0, action |-> "",
             readStatus |-> "", resp |-> NoResponse]

CanStart == nOps < MaxOps /\ BagCardinality(reqs) < MaxConcurrent

\* The gig routes run with no user stored that the auth routes could touch.
NoUsers == users = <<>> /\ now = 0 /\ compared = 0 /\ verified = FALSE

\* After findById and the checks the request is answered or goes on.
Begin(q, check) ==
  /\ reqs' = IF check = Proceed THEN reqs (+) SetToBag({q}) ELSE reqs
  /\ last' = IF check = Proceed THEN last ELSE Answer(q, check)
  /\ nOps' = nOps + 1
  /\ UNCHANGED <<gig, gigs, payments, notifications, authVars>>

\* The request is answered.
End(q, resp) ==
  /\ reqs' = reqs (-) SetToBag({q})
  /\ last' = Answer(q, resp)
  /\ UNCHANGED <<nOps, gigs, authVars>>

Init ==
  /\ \E maxApplications \in 1..MaxAppLimit :
       gig = NewGig("s1", 100, 3, maxApplications)
  /\ gigs = <<>>
  /\ payments = <<>>
  /\ notifications = EmptyBag
  /\ reqs = EmptyBag
  /\ last = NoAnswer
  /\ nOps = 0
  /\ NoUsers

\* The gig of NewGig after wA applied, the store accepted the application and
\* wA started the gig.
StartedGig(store, hourlyRate, duration, maxApplications) ==
  [NewGig(store, hourlyRate, duration, maxApplications) EXCEPT
     !.worker = "wA", !.status = "in-progress",
     !.applications = <<[worker |-> "wA", status |-> "accepted"]>>,
     !.assignedAt = "set", !.startedAt = "set", !.v = 1]

\* The collections either as createGig leaves them, or as they are once the
\* gig has been applied for, assigned and started.
InitStarted ==
  /\ \E maxApplications \in 1..MaxAppLimit :
       \/ /\ gig = NewGig("s1", 100, 3, maxApplications)
          /\ notifications = EmptyBag
       \/ /\ gig = StartedGig("s1", 100, 3, maxApplications)
          /\ notifications =
               SetToBag({NewNotification("s1", "application_received"),
                         NewNotification("wA", "application_accepted")})
  /\ gigs = <<>>
  /\ payments = <<>>
  /\ reqs = EmptyBag
  /\ last = NoAnswer
  /\ nOps = 0
  /\ NoUsers

\* The gig of NewGig after the workers wA, wB and a third one applied.
AppliedGig(store, hourlyRate, duration, maxApplications) ==
  [NewGig(store, hourlyRate, duration, maxApplications) EXCEPT
     !.applications = <<[worker |-> "wA", status |-> "pending"],
                        [worker |-> "wB", status |-> "pending"],
                        [worker |-> "wC", status |-> "pending"]>>,
     !.v = 3]

\* The collections either as createGig leaves them, or as they are once
\* three workers have applied for the gig.
InitApplied ==
  /\ \/ /\ \E maxApplications \in 1..MaxAppLimit :
             gig = NewGig("s1", 100, 3, maxApplications)
        /\ notifications = EmptyBag
     \/ /\ gig = AppliedGig("s1", 100, 3, DefaultMaxApplications)
        /\ notifications =
             SetToBag({NewNotification("s1", "application_received")})
             (+) SetToBag({NewNotification("s1", "application_received")})
             (+) SetToBag({NewNotification("s1", "application_received")})
  /\ gigs = <<>>
  /\ payments = <<>>
  /\ reqs = EmptyBag
  /\ last = NoAnswer
  /\ nOps = 0
  /\ NoUsers

\* POST /:id/apply up to gig.save()
ApplyForGig(w) ==
  /\ CanStart
  /\ LET m0 == Load(gig)
     IN Begin(Pending("apply", w, 0, "", m0, ApplyModify(m0, w)),
              ApplyCheck(m0.doc, w))

\* PUT /:id/applications/:applicationId up to its first await
ResolveApplication(s, appId, action) ==
  /\ CanStart
  /\ LET m0 == Load(gig)
         check == ResolveCheck(m0.doc, s, appId)
     IN Begin(Pending("resolve", s, appId, action, m0,
                      IF check = Proceed THEN ResolveModify(m0, appId, action) ELSE m0),
              check)

\* PUT /:id/start up to gig.save()
StartGig(w) ==
  /\ CanStart
  /\ LET m0 == Load(gig)
     IN Begin(Pending("start", w, 0, "", m0, StartModify(m0)),
              StartCheck(m0.doc, w))

\* PUT /:id/complete up to gig.save()
CompleteGig(w) ==
  /\ CanStart
  /\ LET m0 == Load(gig)
     IN Begin(Pending("complete", w, 0, "", m0, CompleteModify(m0)),
              CompleteCheck(m0.doc, w))

\* GET /:id up to gig.save()
ViewGig ==
  /\ CanStart
  /\ gig.views < MaxViews
  /\ LET m0 == Load(gig)
     IN Begin(Pending("view", Null, 0, "", m0, ViewModify(m0)), Proceed)

\* Notification.create(...) stores the notification, or throws.
Created(thrown, n) ==
  IF thrown THEN notifications ELSE notifications (+) SetToBag({n})

\* POST /:id/apply from gig.save(): the notification for the store follows
\* the save.
ApplySave(q) ==
  /\ BagIn(q, reqs) /\ q.op = "apply"
  /\ gig' = SaveGig(gig, q.m)
  /\ \E thrown \in BOOLEAN :
       /\ notifications' =
            Created(thrown, NewNotification(q.m.doc.store, "application_received"))
       /\ End(q, IF thrown THEN Response(500, MsgApplyFailed)
                 ELSE Response(200, MsgApplied))
  /\ UNCHANGED payments

\* PUT /:id/applications/:applicationId from its first await: in the accept
\* branch the notification for the worker comes before gig.save().
ResolveSave(q) ==
  /\ BagIn(q, reqs) /\ q.op = "resolve"
  /\ \E thrown \in BOOLEAN :
       LET notified == q.action = "accept"
           saved == ~thrown /\ SaveOk(gig, q.m)
       IN /\ thrown => notified
          /\ notifications' =
               IF notified
               THEN Created(thrown,
                            NewNotification(q.m.doc.applications[q.appId].worker,
                                            "application_accepted"))
               ELSE notifications
          /\ gig' = IF thrown THEN gig ELSE SaveGig(gig, q.m)
          /\ End(q, IF saved THEN Response(200, MsgResolved(q.action))
                    ELSE Response(500, MsgManageFailed))
  /\ UNCHANGED payments

\* PUT /:id/start from gig.save()
StartSave(q) ==
  /\ BagIn(q, reqs) /\ q.op = "start"
  /\ gig' = SaveGig(gig, q.m)
  /\ End(q, Response(200, MsgStarted))
  /\ UNCHANGED <<payments, notifications>>

\* PUT /:id/complete from gig.save(): payment.save() follows the save, the
\* notification for the store follows the payment.
CompleteSave(q) ==
  /\ BagIn(q, reqs) /\ q.op = "complete"
  /\ gig' = SaveGig(gig, q.m)
  /\ LET p == NewPayment(q.m.doc) IN
     \E thrown \in BOOLEAN :
       /\ thrown => PaymentValid(p)
       /\ payments' = IF PaymentValid(p) THEN Append(payments, PaymentPreSave(p))
                      ELSE payments
       /\ notifications' =
            IF PaymentValid(p)
            THEN Created(thrown, NewNotification(q.m.doc.store, "gig_completed"))
            ELSE notifications
       /\ End(q, IF PaymentValid(p) /\ ~thrown THEN Response(200, MsgCompleted)
                 ELSE Response(500, MsgCompleteFailed))

\* GET /:id from gig.save()
ViewSave(q) ==
  /\ BagIn(q, reqs) /\ q.op = "view"
  /\ gig' = SaveGig(gig, q.m)
  /\ End(q, Response(200, MsgViewed))
  /\ UNCHANGED <<payments, notifications>>

\* hourlyRate and duration a later save gives the gig.
SavedRates == {MinHourlyRate, MinHourlyRate + 25}
SavedDurations == {1, 2}

\* No gig is stored yet and one POST / was received.
InitCreate ==
  /\ gig = NoGig
  /\ gigs = <<>>
  /\ payments = <<>>
  /\ notifications = EmptyBag
  /\ \E caller \in Stores, body \in Bodies :
       reqs = SetToBag({CreateRequest(caller, body)})
  /\ last = NoAnswer
  /\ nOps = 1
  /\ NoUsers

\* POST /
CreateGig(q) ==
  /\ BagIn(q, reqs) /\ q.op = "create"
  /\ LET r == CreateGigResult(q.user, q.body) IN
     /\ gig' = r.gig
     /\ End(q, r.resp)
  /\ UNCHANGED <<payments, notifications>>

\* gig.hourlyRate = h; gig.duration = d; gig.save() on the stored gig.
SaveWithRates(h, d) ==
  /\ nOps < MaxOps /\ reqs = EmptyBag
  /\ gig # NoGig
  /\ gig' = SaveGig(gig, SetPath(SetPath(Load(gig), "hourlyRate", h), "duration", d))
  /\ last' = [NoAnswer EXCEPT !.op = "save", !.readStatus = gig.status]
  /\ nOps' = nOps + 1
  /\ UNCHANGED <<gigs, payments, notifications, reqs, authVars>>

Collections == UNION {[1..n -> GigDocs] : n \in 0..MaxGigs}

\* A collection of gigs and one list request that was received.
InitList ==
  /\ gig = NoGig
  /\ gigs \in Collections
  /\ payments = <<>>
  /\ notifications = EmptyBag
  /\ \/ \E query \in ListQueries :
          reqs = SetToBag({ListRequest("list", Null, query)})
     \/ \E user \in Stores \cup Workers, query \in MyGigsQueries :
          reqs = SetToBag({ListRequest("mygigs", user, query)})
  /\ last = NoAnswer
  /\ nOps = 1
  /\ NoUsers

\* The list request q is answered: the request with its answer.
ListAnswer(q, resp) ==
  [op |-> q.op, user |-> q.user, appId |-> 0, action |-> "",
   readStatus |-> "", resp |-> resp, query |-> q.query]

\* GET /
ListGigs(q) ==
  /\ BagIn(q, reqs) /\ q.op = "list"
  /\ reqs' = reqs (-) SetToBag({q})
  /\ last' = ListAnswer(q, ListGigsResult(gigs, q.query))
  /\ UNCHANGED <<gig, gigs, payments, notifications, nOps, authVars>>

\* GET /my/gigs
ListMyGigs(q) ==
  /\ BagIn(q, reqs) /\ q.op = "mygigs"
  /\ reqs' = reqs (-) SetToBag({q})
  /\ last' = ListAnswer(q, MyGigsResult(gigs, UserType(q.user), q.user, q.query))
  /\ UNCHANGED <<gig, gigs, payments, notifications, nOps, authVars>>

\* The application ids a store can name: those of the gig, and an unknown one.
AppIds == 0..Len(gig.applications)

InFlight == BagToSet(reqs)

Next ==
  \/ \E w \in Workers : ApplyForGig(w)
  \/ \E s \in Stores, appId \in AppIds, action \in {"accept", "reject"} :
       ResolveApplication(s, appId, action)
  \/ \E w \in Workers : StartGig(w)
  \/ \E w \in Workers : CompleteGig(w)
  \/ ViewGig
  \/ \E q \in InFlight : ApplySave(q)
  \/ \E q \in InFlight : ResolveSave(q)
  \/ \E q \in InFlight : StartSave(q)
  \/ \E q \in InFlight : CompleteSave(q)
  \/ \E q \in InFlight : ViewSave(q)

Spec == Init /\ [][Next]_vars

SpecStarted == InitStarted /\ [][Next]_vars

SpecApplied == InitApplied /\ [][Next]_vars

NextCreate ==
  \/ \E q \in InFlight : CreateGig(q)
  \/ \E h \in SavedRates, d \in SavedDurations : SaveWithRates(h, d)

SpecCreate == InitCreate /\ [][NextCreate]_vars

NextList ==
  \/ \E q \in InFlight : ListGigs(q)
  \/ \E q \in InFlight : ListMyGigs(q)

SpecList == InitList /\ [][NextList]_vars

\* ---- the requests of routes/auth.js ----

\* A request that has read its user and waits for user.save(): idx is the
\* _id of the user, m the loaded document with the handler's changes.
AuthPending(op, phone, otp, idx, m, valid, message) ==
  [op |-> op, phone |-> phone, otp |-> otp, idx |-> idx, m |-> m,
   valid |-> valid, message |-> message]

\* res.json(...) of a request of routes/auth.js.
AuthAnswer(op, phone, otp, resp) ==
  [op |-> op, phone |-> phone, otp |-> otp, resp |-> resp]

\* A user whose OTP was issued at time 0 by POST /register or POST /send-otp.
UserWithOtp ==
  SaveUser(NewUser(<<"9", "1">>, <<"a", "@", "x">>),
           generateOTP(LoadUser(NewUser(<<"9", "1">>, <<"a", "@", "x">>)), 0))

\* One registered user, with an OTP just issued or with none.
InitOtp ==
  /\ gig = NoGig /\ gigs = <<>> /\ payments = <<>>
  /\ notifications = EmptyBag
  /\ reqs = EmptyBag /\ last = NoAnswer /\ nOps = 0
  /\ \/ users = <<UserWithOtp>> /\ verified = FALSE
     \/ users = <<NewUser(<<"9", "1">>, <<"a", "@", "x">>)>> /\ verified = TRUE
  /\ now = 0
  /\ compared = 0

\* POST /send-otp up to user.save()
SendOtp(raw) ==
  /\ CanStart
  /\ nOps' = nOps + 1
  /\ LET phone == CleanPhone(raw)
         i == FindByPhone(users, phone)
     IN IF ~IsMobilePhone(raw)
        THEN /\ last' = AuthAnswer("send-otp", raw, "", Response(400, MsgValidation))
             /\ reqs' = reqs /\ verified' = verified
        ELSE IF i = 0
        THEN /\ last' = AuthAnswer("send-otp", phone, "",
                                   Response(404, MsgPhoneNotRegistered))
             /\ reqs' = reqs /\ verified' = verified
        ELSE /\ reqs' = reqs (+) SetToBag({
                  AuthPending("send-otp", phone, "", i,
                              generateOTP(LoadUser(users[i]), now), FALSE, "")})
             /\ verified' = FALSE
             /\ last' = last
  /\ UNCHANGED <<gigVars, users, now, compared>>

\* POST /send-otp from user.save(): a new code is stored.
SendOtpSave(q) ==
  /\ BagIn(q, reqs) /\ q.op = "send-otp"
  /\ users' = [users EXCEPT ![q.idx] = SaveUser(@, q.m)]
  /\ compared' = 0
  /\ reqs' = reqs (-) SetToBag({q})
  /\ last' = AuthAnswer(q.op, q.phone, q.otp, Response(200, MsgOtpSent))
  /\ UNCHANGED <<gigVars, nOps, now, verified>>

\* user.isPhoneVerified = true after a valid verification (lastLogin is not
\* modelled).
VerifiedModify(m) ==
  [m EXCEPT !.doc.isPhoneVerified = TRUE,
            !.dirty = IF m.doc.isPhoneVerified THEN @
                      ELSE @ \cup {"isPhoneVerified"}]

\* POST /verify-otp up to user.save()
VerifyOtp(raw, otp) ==
  /\ CanStart
  /\ nOps' = nOps + 1
  /\ LET phone == CleanPhone(raw)
         i == FindByPhone(users, phone)
     IN IF ~IsMobilePhone(raw) \/ Len(otp) # OtpLength
        THEN /\ last' = AuthAnswer("verify-otp", raw, otp, Response(400, MsgValidation))
             /\ reqs' = reqs /\ compared' = compared /\ verified' = verified
        ELSE IF i = 0
        THEN /\ last' = AuthAnswer("verify-otp", phone, otp,
                                   Response(404, MsgUserNotFound))
             /\ reqs' = reqs /\ compared' = compared /\ verified' = verified
        ELSE LET verification == verifyOTP(LoadUser(users[i]), otp, now) IN
             /\ reqs' = reqs (+) SetToBag({
                  AuthPending("verify-otp", phone, otp, i,
                              IF verification.valid
                              THEN VerifiedModify(verification.m)
                              ELSE verification.m,
                              verification.valid, verification.message)})
             /\ compared' = IF verification.compared THEN compared + 1 ELSE compared
             /\ verified' = (verified \/ verification.valid)
             /\ last' = last
  /\ UNCHANGED <<gigVars, users, now>>

\* POST /verify-otp from user.save()
VerifyOtpSave(q) ==
  /\ BagIn(q, reqs) /\ q.op = "verify-otp"
  /\ users' = [users EXCEPT ![q.idx] = SaveUser(@, q.m)]
  /\ reqs' = reqs (-) SetToBag({q})
  /\ last' = AuthAnswer(q.op, q.phone, q.otp,
                        IF q.valid THEN Response(200, MsgLoginSuccessful)
                        ELSE Response(400, q.message))
  /\ UNCHANGED <<gigVars, nOps, now, compared, verified>>

\* Time passes.
Tick ==
  /\ now < MaxTicks * OtpLifetimeMs
  /\ now' = now + OtpLifetimeMs
  /\ UNCHANGED <<gigVars, reqs, last, nOps, users, compared, verified>>

NextOtp ==
  \/ \E raw \in RawPhones : SendOtp(raw)
  \/ \E q \in InFlight : SendOtpSave(q)
  \/ \E raw \in RawPhones, otp \in CandidateOtps : VerifyOtp(raw, otp)
  \/ \E q \in InFlight : VerifyOtpSave(q)
  \/ Tick

SpecOtp == InitOtp /\ [][NextOtp]_vars

\* ---- POST /register ----

RawEmails == {<<"a", "@", "x">>, <<"A", "@", "x">>, <<"b", "@", "x">>, <<"a">>}

\* isEmail(): a local part, an at sign, a domain.
IsEmail(raw) ==
  \E i \in 2..(Len(raw) - 1) :
    /\ raw[i] = "@"
    /\ \A j \in 1..Len(raw) : (raw[j] = "@") => j = i

LowerChar(c) == CASE c = "A" -> "a" [] c = "B" -> "b" [] OTHER -> c

\* toLowerCase(), as normalizeEmail() and the schema's lowercase: true do.
Lower(raw) == [i \in 1..Len(raw) |-> LowerChar(raw[i])]

\* normalizeEmail() of the validation chain.
NormalizeEmail(raw) == Lower(raw)

\* req.body of POST /register: aadhaarNumber comes with the additional
\* fields; "12" is not a 12-digit number.
RegisterBodies ==
  [phoneNumber : RawPhones, email : RawEmails,
   userType : {"store", "worker"}, aadhaarNumber : {Absent, "12"}]

\* The validation chain of POST /register.
RegisterValidationOk(body) == IsMobilePhone(body.phoneNumber) /\ IsEmail(body.email)

\* Schema validation on user.save(): the aadhaarNumber validator runs when a
\* value is given.
UserValid(body) ==
  body.aadhaarNumber # Absent => body.userType # "worker"

\* User.findOne({ $or: [{ phoneNumber }, { email }] })
FindByPhoneOrEmail(coll, phone, email) ==
  LET ids == Find([i \in 1..Len(coll) |->
                     coll[i].phoneNumber = phone \/ coll[i].email = email], 1)
  IN IF ids = <<>> THEN 0 ELSE ids[1]

\* The unique indexes without the one on email.
UniqueOk_PhoneOnly(coll, doc) ==
  \A i \in 1..Len(coll) : coll[i].phoneNumber # doc.phoneNumber

\* The unique indexes on phoneNumber and email let the insert through.
UniqueOk(coll, doc) ==
  \A i \in 1..Len(coll) :
    coll[i].phoneNumber # doc.phoneNumber /\ coll[i].email # doc.email

\* A register request between its awaits: stage "insert" waits for the first
\* user.save(), stage "otp" for the second; docValid tells whether the
\* document of the request passes schema validation.
RegisterPending(stage, docValid, phone, email, idx, m) ==
  [op |-> "register", stage |-> stage, docValid |-> docValid, phone |-> phone,
   email |-> email, idx |-> idx, m |-> m]

RegisterAnswer(q, resp, created) ==
  [op |-> "register", docValid |-> q.docValid, phone |-> q.phone,
   email |-> q.email, resp |-> resp, created |-> created]

\* No user or one user is stored.
InitRegister ==
  /\ gig = NoGig /\ gigs = <<>> /\ payments = <<>>
  /\ notifications = EmptyBag
  /\ reqs = EmptyBag /\ last = NoAnswer /\ nOps = 0
  /\ users \in {<<>>, <<UserWithOtp>>}
  /\ now = 0 /\ compared = 0 /\ verified = FALSE

\* POST /register up to the first user.save()
Register(body) ==
  /\ CanStart
  /\ nOps' = nOps + 1
  /\ LET phone == CleanPhone(body.phoneNumber)
         email == NormalizeEmail(body.email)
         q == RegisterPending("insert", UserValid(body), phone, email, 0,
                              LoadUser(NewUser(phone, Lower(email))))
     IN IF ~RegisterValidationOk(body)
        THEN /\ last' = RegisterAnswer(q, Response(400, MsgValidation), FALSE)
             /\ reqs' = reqs
        ELSE IF FindByPhoneOrEmail(users, phone, email) # 0
        THEN /\ last' = RegisterAnswer(q, Response(400, MsgUserExists), FALSE)
             /\ reqs' = reqs
        ELSE reqs' = reqs (+) SetToBag({q}) /\ last' = last
  /\ UNCHANGED <<gigVars, authVars>>

\* The first user.save(): the insert, refused by schema validation or by a
\* unique index; after it generateOTP runs on the inserted document.
RegisterInsert(q) ==
  /\ BagIn(q, reqs) /\ q.op = "register" /\ q.stage = "insert"
  /\ IF q.docValid /\ UniqueOk(users, q.m.doc)
     THEN /\ users' = Append(users, q.m.doc)
          /\ reqs' = (reqs (-) SetToBag({q})) (+) SetToBag({
               RegisterPending("otp", q.docValid, q.phone, q.email, Len(users) + 1,
                               generateOTP(q.m, now))})
          /\ last' = last
     ELSE /\ users' = users
          /\ reqs' = reqs (-) SetToBag({q})
          /\ last' = RegisterAnswer(q, Response(500, MsgRegistrationFailed), FALSE)
  /\ UNCHANGED <<gigVars, nOps, now, compared, verified>>

\* The second user.save(), with the OTP, and the answer.
RegisterOtpSave(q) ==
  /\ BagIn(q, reqs) /\ q.op = "register" /\ q.stage = "otp"
  /\ users' = [users EXCEPT ![q.idx] = SaveUser(@, q.m)]
  /\ reqs' = reqs (-) SetToBag({q})
  /\ last' = RegisterAnswer(q, Response(201, MsgRegistered), TRUE)
  /\ UNCHANGED <<gigVars, nOps, now, compared, verified>>

NextRegister ==
  \/ \E body \in RegisterBodies : Register(body)
  \/ \E q \in InFlight : RegisterInsert(q)
  \/ \E q \in InFlight : RegisterOtpSave(q)

SpecRegister == InitRegister /\ [][NextRegister]_vars

\* ---- a request run on its own ----

\* The checks of request q's handler on the document doc.
CheckOf(q, doc) ==
  CASE q.op = "apply" -> ApplyCheck(doc, q.user)
    [] q.op = "resolve" -> ResolveCheck(doc, q.user, q.appId)
    [] q.op = "start" -> StartCheck(doc, q.user)
    [] q.op = "complete" -> CompleteCheck(doc, q.user)
    [] OTHER -> Proceed

\* The changes request q's handler makes to the loaded document m.
ModifyOf(q, m) ==
  CASE q.op = "apply" -> ApplyModify(m, q.user)
    [] q.op = "resolve" -> ResolveModify(m, q.appId, q.action)
    [] q.op = "start" -> StartModify(m)
    [] q.op = "complete" -> CompleteModify(m)
    [] OTHER -> ViewModify(m)

\* The stored gig after request q ran from findById to gig.save() with no
\* other request in between.
Serial(db, q) ==
  IF CheckOf(q, Load(db).doc) = Proceed
  THEN SaveGig(db, ModifyOf(q, Load(db)))
  ELSE db

\* ---- helpers of the properties ----

AssignedStates == {"assigned", "in-progress", "completed"}

AllPending(g) ==
  \A i \in DOMAIN g.applications : g.applications[i].status = "pending"

CountStatus(g, st) ==
  Cardinality({i \in DOMAIN g.applications : g.applications[i].status = st})

\* This step issues a request op by user.
Issued(op, user) ==
  /\ nOps' = nOps + 1
  /\ \/ reqs' = reqs /\ last'.op = op /\ last'.user = user
     \/ \E q \in BagToSet(reqs') :
          /\ CopiesIn(q, reqs') > CopiesIn(q, reqs)
          /\ q.op = op /\ q.user = user

\* This step is the gig.save() of the accept request q.
AcceptSaved(q) ==
  /\ q.op = "resolve" /\ q.action = "accept"
  /\ CopiesIn(q, reqs') < CopiesIn(q, reqs)

\* The error kinds of the specification, as the responses that carry them.
InvalidTransition(resp) ==
  resp.status = 400 /\ resp.message \in {MsgNotOpen, MsgNotAssigned, MsgNotInProgress}
DuplicateApplication(resp) == resp = Response(400, MsgAlreadyApplied)
ApplicationLimitReached(resp) == resp = Response(400, MsgMaxReached)

LegalTransitions ==
  {<<"open", "assigned">>, <<"assigned", "in-progress">>,
   <<"in-progress", "completed">>, <<"open", "cancelled">>,
   <<"assigned", "cancelled">>}

\* ---- properties ----

\* C1: every change of gig.status is open->assigned, assigned->in-progress,
\* in-progress->completed or a cancel from open/assigned; in particular
\* completed is never left and status never moves back to assigned.
C1_LegalStatusChanges ==
  [][gig'.status # gig.status => <<gig.status, gig'.status>> \in LegalTransitions]_vars

\* C2: of two concurrent accept requests for distinct applications that both
\* read the gig open, exactly one assigns a worker.  The one whose save comes
\* second (the status is no longer open and the other application is the
\* accepted one) is not answered with success, where the claim has
\* InvalidTransition, and changes nothing.
C2_LosingAcceptFails ==
  [][\A q \in InFlight :
       ( /\ AcceptSaved(q) /\ q.readStatus = "open"
         /\ gig.status # "open"
         /\ Len(gig.applications) <= gig.maxApplications
         /\ \E i \in DOMAIN gig.applications :
              /\ gig.applications[i].status = "accepted"
              /\ gig.applications[i].worker # gig.applications[q.appId].worker )
       => last'.resp.status # 200 /\ gig' = gig]_vars

\* C3: a successful accept on an open gig with N pending applications leaves
\* exactly 1 accepted (the one named) and N-1 rejected applications, status
\* assigned, worker the accepted application's worker, and assignedAt set.
C3_AcceptAssigns ==
  [][\A q \in InFlight :
       ( /\ AcceptSaved(q)
         /\ gig.status = "open" /\ AllPending(gig)
         /\ last'.resp.status = 200 )
       => LET k == AppIndex(gig, q.appId) IN
          /\ k # 0
          /\ Len(gig'.applications) = Len(gig.applications)
          /\ gig'.applications[k].status = "accepted"
          /\ CountStatus(gig', "accepted") = 1
          /\ CountStatus(gig', "rejected") = Len(gig.applications) - 1
          /\ gig'.status = "assigned"
          /\ gig'.worker = gig.applications[k].worker
          /\ gig'.assignedAt # Null]_vars

\* C3 witness: two applications came in, the third request accepted one of
\* them: one is accepted, the other rejected, the gig is assigned.
C3_Witness ==
  /\ nOps = 3 /\ Len(gig.applications) = 2
  /\ last.op = "resolve" /\ last.action = "accept" /\ last.resp.status = 200
  /\ last.readStatus = "open"
  /\ gig.status = "assigned"
  /\ CountStatus(gig, "accepted") = 1 /\ CountStatus(gig, "rejected") = 1

C5_OneAcceptedApplication ==
  /\ CountStatus(gig, "accepted") <= 1
  /\ gig.status \in AssignedStates =>
       /\ CountStatus(gig, "accepted") = 1
       /\ \E i \in DOMAIN gig.applications :
            /\ gig.applications[i].status = "accepted"
            /\ gig.applications[i].worker = gig.worker

\* C6: gig.applications holds at most one application per worker.
C6_OneApplicationPerWorker ==
  \A i, j \in DOMAIN gig.applications :
    gig.applications[i].worker = gig.applications[j].worker => i = j

\* C7 as stated: an apply by a worker who already has an application on the
\* gig, whatever its status, is refused with DuplicateApplication and leaves
\* the gig unchanged.
C7_Original ==
  [][\A w \in Workers :
       (Issued("apply", w) /\ HasApplied(gig, w))
       => /\ reqs' = reqs /\ DuplicateApplication(last'.resp)
          /\ gig' = gig]_vars

\* C7 amended: an apply on an open gig by a worker who already has an
\* application on it (pending or rejected) is refused with
\* DuplicateApplication and leaves the gig unchanged; on a gig that is not
\* open the refusal is the not-open one.
C7_DuplicateRefused ==
  [][\A w \in Workers :
       (Issued("apply", w) /\ HasApplied(gig, w))
       => /\ reqs' = reqs /\ gig' = gig /\ notifications' = notifications
          /\ IF gig.status = "open" THEN DuplicateApplication(last'.resp)
             ELSE last'.resp = Response(400, MsgNotOpen)]_vars

\* C7 witness: a worker whose application was rejected applied again to the
\* open gig and was refused as a duplicate.
C7_Witness ==
  /\ last.op = "apply" /\ DuplicateApplication(last.resp)
  /\ gig.status = "open"
  /\ \E i \in DOMAIN gig.applications :
       /\ gig.applications[i].worker = last.user
       /\ gig.applications[i].status = "rejected"

\* C8 as stated: an apply on an open gig whose applications.length equals
\* maxApplications is refused with ApplicationLimitReached and appends nothing.
C8_Original ==
  [][\A w \in Workers :
       ( /\ Issued("apply", w) /\ gig.status = "open"
         /\ Len(gig.applications) = gig.maxApplications )
       => /\ reqs' = reqs /\ ApplicationLimitReached(last'.resp)
          /\ gig' = gig]_vars

\* C8 amended: an apply, by a worker who has no application on the gig yet,
\* on an open gig whose applications.length equals maxApplications (counting
\* applications of every status) is refused with ApplicationLimitReached and
\* appends nothing; a worker who has one is refused with DuplicateApplication.
C8_LimitRefused ==
  [][\A w \in Workers :
       ( /\ Issued("apply", w) /\ gig.status = "open"
         /\ Len(gig.applications) = gig.maxApplications )
       => /\ reqs' = reqs /\ gig' = gig
          /\ IF HasApplied(gig, w) THEN DuplicateApplication(last'.resp)
             ELSE ApplicationLimitReached(last'.resp)]_vars

\* C8 witness: the limit was reached by an application that is rejected by
\* now, and another worker's apply was refused for the limit.
C8_Witness ==
  /\ last.op = "apply" /\ ApplicationLimitReached(last.resp)
  /\ gig.status = "open"
  /\ Len(gig.applications) = gig.maxApplications
  /\ CountStatus(gig, "rejected") >= 1
  /\ ~HasApplied(gig, last.user)

\* C9: gig.applications.length <= gig.maxApplications in every state.
C9_WithinLimit == Len(gig.applications) <= gig.maxApplications

\* C10: an apply on a gig that is not open is refused, leaves the gig
\* unchanged and creates no notification.
C10_NotOpenRefused ==
  [][\A w \in Workers :
       (Issued("apply", w) /\ gig.status # "open")
       => /\ reqs' = reqs /\ last'.resp = Response(400, MsgNotOpen)
          /\ gig' = gig /\ notifications' = notifications]_vars

\* C10 witness: an apply on a gig in progress was refused.
C10_Witness ==
  /\ last.op = "apply" /\ last.resp = Response(400, MsgNotOpen)
  /\ last.readStatus = "in-progress" /\ gig.status = "in-progress"

\* This step is the gig.save() of the apply request q.
ApplySaved(q) ==
  /\ q.op = "apply"
  /\ CopiesIn(q, reqs') < CopiesIn(q, reqs)

\* C11: a successful apply appends exactly one application {worker: caller,
\* status: pending} at the end of the stored applications and changes nothing
\* else on the gig (status, worker, store, the existing applications and
\* their statuses, every other field); it creates one application_received
\* notification addressed to gig.store.
C11_ApplyAppendsOne ==
  [][\A q \in InFlight :
       (ApplySaved(q) /\ last'.resp.status = 200)
       => /\ gig'.applications =
               Append(gig.applications, [worker |-> q.user, status |-> "pending"])
          /\ [gig' EXCEPT !.applications = gig.applications, !.v = gig.v] = gig
          /\ notifications' =
               notifications (+) SetToBag({NewNotification(gig.store, "application_received")})
          /\ payments' = payments]_vars

\* C11 witness: a second worker's application was appended behind the first
\* one while the gig stayed open, and the store has its two notifications.
C11_Witness ==
  /\ last.op = "apply" /\ last.resp = Response(200, MsgApplied)
  /\ Len(gig.applications) = 2
  /\ gig.applications[2] = [worker |-> last.user, status |-> "pending"]
  /\ gig.applications[1].worker # last.user
  /\ gig.status = "open" /\ gig.worker = Null
  /\ CopiesIn(NewNotification(gig.store, "application_received"), notifications) = 2

\* C12: a start by the assigned worker on a gig whose status is not assigned,
\* and a complete by the assigned worker on a gig whose status is not
\* in-progress, are refused with InvalidTransition; the refused call leaves
\* the gig unchanged and creates no payment and no notification.
C12_WrongStatusRefused ==
  [][\A w \in Workers :
       /\ (Issued("start", w) /\ gig.worker = w /\ gig.status # "assigned")
          => /\ reqs' = reqs
             /\ last'.resp = Response(400, MsgNotAssigned)
             /\ InvalidTransition(last'.resp)
             /\ gig' = gig /\ payments' = payments /\ notifications' = notifications
       /\ (Issued("complete", w) /\ gig.worker = w /\ gig.status # "in-progress")
          => /\ reqs' = reqs
             /\ last'.resp = Response(400, MsgNotInProgress)
             /\ InvalidTransition(last'.resp)
             /\ gig' = gig /\ payments' = payments /\ notifications' = notifications]_vars

\* C12 witness: the assigned worker asked to complete a gig that was not
\* started yet and was refused.
C12_Witness ==
  /\ last.op = "complete" /\ last.user = gig.worker
  /\ last.resp = Response(400, MsgNotInProgress)
  /\ last.readStatus = "assigned" /\ gig.status = "assigned"
  /\ gig.completedAt = Null /\ payments = <<>>

Forbidden(resp) == resp.status = 403

\* C13: a start or a complete by a user who is not gig.worker is refused
\* with Forbidden and leaves the gig unchanged, whatever the gig's status,
\* also on an open gig whose worker is null.
C13_NotWorkerForbidden ==
  [][\A w \in Workers, op \in {"start", "complete"} :
       (Issued(op, w) /\ gig.worker # w)
       => /\ reqs' = reqs
          /\ Forbidden(last'.resp)
          /\ gig' = gig]_vars

\* This step is the gig.save() of the complete request q, with what follows
\* it in the handler.
CompleteSaved(q) ==
  /\ q.op = "complete"
  /\ CopiesIn(q, reqs') < CopiesIn(q, reqs)

\* Math.round(n / d) for n >= 0.
Round(n, d) == (2 * n + d) \div (2 * d)

\* C14: a complete that passed its checks and saved the gig as completed
\* creates one Payment for the gig with amount = gig.totalAmount,
\* platformFee = round(amount * 0.10), workerAmount = amount - platformFee,
\* the gig's store and worker, and status pending (platformFee and
\* workerAmount read in tenths, as PaymentPreSave holds them).
C14_CompleteCreatesPayment ==
  [][\A q \in InFlight :
       (CompleteSaved(q) /\ gig'.status = "completed")
       => /\ Len(payments') = Len(payments) + 1
          /\ LET p == payments'[Len(payments')] IN
             /\ p.gig = "g"
             /\ p.amount = gig.totalAmount
             /\ p.platformFee = 10 * Round(p.amount, 10)
             /\ p.workerAmount = 10 * p.amount - p.platformFee
             /\ p.store = gig.store /\ p.worker = gig.worker
             /\ p.status = "pending"]_vars

C16_CompletedHasPayment ==
  ( /\ \A q \in InFlight : q.op # "complete"
    /\ gig.status = "completed" )
  => \E i \in DOMAIN payments : payments[i].gig = "g"

\* C17: when Notification.create fails in an apply, in an accept or in a
\* complete (the step stores no notification), the gig's transition is
\* persisted all the same and the caller is answered with success: the
\* application is appended; the accept, unless its save loses a version
\* conflict, assigns the gig; the complete whose Payment was stored leaves
\* the gig completed.
C17_NotificationFailureHarmless ==
  [][\A q \in InFlight :
       /\ (ApplySaved(q) /\ notifications' = notifications)
          => /\ last'.resp.status = 200
             /\ Len(gig'.applications) = Len(gig.applications) + 1
       /\ (AcceptSaved(q) /\ SaveOk(gig, q.m) /\ notifications' = notifications)
          => /\ last'.resp.status = 200
             /\ gig'.status = "assigned"
             /\ gig'.worker = gig.applications[q.appId].worker
       /\ (CompleteSaved(q) /\ payments' # payments /\ notifications' = notifications)
          => /\ last'.resp.status = 200
             /\ gig'.status = "completed"]_vars

\* This step is the POST / request q being answered.
CreateAnswered(q) ==
  /\ q.op = "create"
  /\ CopiesIn(q, reqs') < CopiesIn(q, reqs)

\* endTime is a time strictly after the time startTime.
IsAfter(endTime, startTime) ==
  /\ endTime # NotATime /\ startTime # NotATime
  /\ endTime > startTime

\* C18: the stored gig has totalAmount = hourlyRate * duration, right after
\* it was created and after every later save that changes hourlyRate or
\* duration.
C18_TotalAmount ==
  gig # NoGig => gig.totalAmount = gig.hourlyRate * gig.duration

\* C18 witness: a gig that was created with another totalAmount in the
\* request body, one hour long, and later saved with another hourlyRate and
\* duration.
C18_Witness ==
  /\ gig # NoGig /\ last.op = "save"
  /\ gig.hourlyRate = MinHourlyRate + 25 /\ gig.duration = 2
  /\ gig.totalAmount = 150

\* C19: a create whose hourlyRate is below 50, whose category is not one of
\* the enumerated ones, or whose endTime is not strictly after its startTime
\* is not answered with success, where the claim has the validation error,
\* and stores no gig.
C19_InvalidCreateRefused ==
  [][\A q \in InFlight :
       ( /\ CreateAnswered(q)
         /\ \/ q.body.hourlyRate < MinHourlyRate
            \/ q.body.category \notin Categories
            \/ ~IsAfter(q.body.endTime, q.body.startTime) )
       => /\ last'.resp.status # 201
          /\ gig' = NoGig]_vars

\* C20: the gig a successful create stores has status open, worker null, no
\* applications, views 0 and the caller as its store, whatever else the
\* request body carries.
C20_CreatedOpen ==
  [][\A q \in InFlight :
       (CreateAnswered(q) /\ last'.resp.status = 201)
       => /\ gig'.status = "open"
          /\ gig'.worker = Null
          /\ gig'.applications = <<>>
          /\ gig'.views = 0
          /\ gig'.store = q.user]_vars

\* This step issues a resolve by user for the application id appId.
IssuedResolve(user, appId) ==
  /\ nOps' = nOps + 1
  /\ \/ /\ reqs' = reqs
        /\ last'.op = "resolve" /\ last'.user = user /\ last'.appId = appId
     \/ \E q \in BagToSet(reqs') :
          /\ CopiesIn(q, reqs') > CopiesIn(q, reqs)
          /\ q.op = "resolve" /\ q.user = user /\ q.appId = appId

NotFound(resp) == resp.status = 404

\* C21: a resolve by a caller who is not gig.store is refused with
\* Forbidden, and a resolve by the store that names no application of the
\* gig is refused with NotFound; either way the gig is unchanged and no
\* notification is created.
C21_ResolveRefused ==
  [][\A s \in Stores, appId \in AppIds :
       ( /\ IssuedResolve(s, appId)
         /\ s # gig.store \/ AppIndex(gig, appId) = 0 )
       => /\ reqs' = reqs
          /\ IF s # gig.store THEN last'.resp = Response(403, MsgNotManager)
             ELSE last'.resp = Response(404, MsgAppNotFound)
          /\ Forbidden(last'.resp) \/ NotFound(last'.resp)
          /\ gig' = gig /\ notifications' = notifications]_vars

\* C21 witness: another store named a pending application of the gig and was
\* refused; the application is still pending and the gig open.
C21_Witness ==
  /\ last.op = "resolve" /\ last.user # gig.store
  /\ Forbidden(last.resp)
  /\ last.appId \in DOMAIN gig.applications
  /\ gig.applications[last.appId].status = "pending"
  /\ gig.status = "open"

\* This step is the gig.save() of the reject request q.
RejectSaved(q) ==
  /\ q.op = "resolve" /\ q.action = "reject"
  /\ CopiesIn(q, reqs') < CopiesIn(q, reqs)

\* C22: a successful reject sets the status of the application it names to
\* rejected and changes nothing else: gig.status, gig.worker, assignedAt,
\* every other field and every other application stay as they are.
C22_RejectOnlyTarget ==
  [][\A q \in InFlight :
       (RejectSaved(q) /\ last'.resp.status = 200)
       => /\ gig'.applications[q.appId].status = "rejected"
          /\ gig' = [gig EXCEPT !.applications[q.appId].status = "rejected"]]_vars

Conflict(resp) == resp.status = 409

\* C23: a resolve by the store on an application that is accepted or
\* rejected already is refused with a conflict error and leaves the gig
\* unchanged, and no step changes the status of an application that is not
\* pending.
C23_ResolvedStaysResolved ==
  [][/\ \A appId \in DOMAIN gig.applications :
          ( /\ IssuedResolve(gig.store, appId)
            /\ gig.applications[appId].status # "pending" )
          => reqs' = reqs /\ Conflict(last'.resp) /\ gig' = gig
     /\ \A i \in DOMAIN gig.applications :
          gig.applications[i].status # "pending"
          => gig'.applications[i].status = gig.applications[i].status]_vars

\* C24: in every state in which the gig is not open, no application of the
\* gig is pending.
C24_NoPendingOnceAssigned ==
  gig.status # "open" => CountStatus(gig, "pending") = 0

Mutating(q) == q.op \in {"apply", "resolve", "start", "complete"}

\* Request q, in flight, loaded the gig as it is stored now.
ReadCurrent(q) == q.m = ModifyOf(q, Load(gig))

\* C25: when two mutating requests are in flight that both loaded the gig
\* as it is stored, their two saves, taken in either order, leave the gig
\* as running the two requests one after the other, in one of the two
\* orders, leaves it.
C25_Serializable ==
  \A q1, q2 \in InFlight :
    ( /\ BagCardinality(reqs) = 2
      /\ q1 # q2 \/ CopiesIn(q1, reqs) = 2
      /\ Mutating(q1) /\ Mutating(q2)
      /\ ReadCurrent(q1) /\ ReadCurrent(q2) )
    => SaveGig(SaveGig(gig, q1.m), q2.m)
         \in {Serial(Serial(gig, q1), q2), Serial(Serial(gig, q2), q1)}

\* This step is the gig.save() of the view request q.
ViewSaved(q) ==
  /\ q.op = "view"
  /\ CopiesIn(q, reqs') < CopiesIn(q, reqs)

\* C26: a view whose save meets the views value it loaded adds exactly 1 to
\* the stored views, and no step of any request makes the stored views
\* smaller.
C26_ViewsMonotonic ==
  [][/\ \A q \in InFlight :
          (ViewSaved(q) /\ q.m.doc.views = gig.views + 1)
          => gig'.views = gig.views + 1
     /\ gig'.views >= gig.views]_vars

\* C27: the save of a view, whatever ran between its findById and its save,
\* writes views only: status, worker, applications, the lifecycle
\* timestamps and every other field of the stored gig stay as they are.
C27_ViewWritesOnlyViews ==
  [][\A q \in InFlight :
       ViewSaved(q)
       => /\ [gig' EXCEPT !.views = gig.views] = gig
          /\ payments' = payments /\ notifications' = notifications]_vars

\* C27 witness: a view loaded the open gig with one pending application and
\* saved after the application was accepted; the gig is still assigned.
C27_Witness ==
  /\ last.op = "view" /\ last.readStatus = "open"
  /\ gig.status = "assigned" /\ gig.worker \in Workers
  /\ CountStatus(gig, "accepted") = 1
  /\ gig.assignedAt # Null
  /\ gig.views = 1

\* The _ids of the gigs that match every filter a GET / query gives, status
\* defaulting to open.
Matching(query) ==
  {k \in DOMAIN gigs :
     /\ gigs[k].status = (IF query.status = Absent THEN "open" ELSE query.status)
     /\ query.category = Absent \/ gigs[k].category = query.category
     /\ query.city = Absent \/ gigs[k].city = query.city}

\* The number of the _ids in set that the sort order puts before k.
RankIn(set, k, order) ==
  Cardinality({j \in set : IF order = "desc" THEN j > k ELSE j < k})

\* C28: the answer of GET / holds only gigs that match every given filter,
\* at most limit of them, namely those at the offsets (page-1)*limit onward
\* of the sorted matches, and its count is the number of all matches.
C28_ListPage ==
  last.op = "list" =>
    LET query == last.query
        page == last.resp.gigs
        offset == (query.page - 1) * query.limit
    IN /\ \A i \in DOMAIN page : page[i] \in Matching(query)
       /\ Len(page) <= query.limit
       /\ \A i \in DOMAIN page :
            RankIn(Matching(query), page[i], query.sortOrder) = offset + i - 1
       /\ Len(page) = query.limit
            \/ Len(page) + offset >= Cardinality(Matching(query))
       /\ last.resp.count = Cardinality(Matching(query))

\* C29: the answer of GET /my/gigs holds only gigs whose store is the caller
\* when the caller is a store, only gigs whose worker is the caller when the
\* caller is a worker, and only gigs of the status asked for when one is.
C29_OnlyOwnGigs ==
  last.op = "mygigs" =>
    \A i \in DOMAIN last.resp.gigs :
      LET doc == gigs[last.resp.gigs[i]] IN
      /\ last.user \in Stores => doc.store = last.user
      /\ last.user \in Workers => doc.worker = last.user
      /\ last.query.status # Absent => doc.status = last.query.status

\* C29 witness: the collection holds a gig assigned to each of the two
\* workers, and the answer to one of them holds a gig.
C29_Witness ==
  /\ last.op = "mygigs" /\ last.user \in Workers
  /\ Len(last.resp.gigs) >= 1
  /\ \E k \in DOMAIN gigs : gigs[k].worker \in Workers \ {last.user}
  /\ \E k \in DOMAIN gigs : gigs[k].store # gigs[last.resp.gigs[1]].store

\* C30: the gig with hourlyRate 100, duration 3 and totalAmount 300 that
\* three workers applied for, after the store accepted wB's application and
\* wB started and completed it, one request after the other, is completed
\* with worker wB, the two other applications are rejected, and there is
\* exactly one Payment, with amount 300, platformFee 30 and workerAmount 270
\* (the two in tenths, as PaymentPreSave holds them).
C30_Scenario ==
  ( /\ Len(gig.applications) = 3 /\ gig.totalAmount = 300
    /\ nOps = 3 /\ reqs = EmptyBag
    /\ gig.worker = "wB" /\ gig.startedAt # Null
    /\ last.op = "complete" /\ last.user = "wB"
    /\ last.readStatus = "in-progress" )
  => /\ gig.status = "completed"
     /\ gig.hourlyRate = 100 /\ gig.duration = 3
     /\ gig.applications[1].status = "rejected"
     /\ gig.applications[2].status = "accepted"
     /\ gig.applications[3].status = "rejected"
     /\ Len(payments) = 1
     /\ payments[1].amount = 300
     /\ payments[1].platformFee = 10 * 30
     /\ payments[1].workerAmount = 10 * 270

\* C31: no step of an apply, resolve, start, complete or view request, its
\* save included, changes the store of the stored gig.
C31_StoreImmutable == [][gig'.store = gig.store]_vars

\* C31 witness: the gig was applied for, assigned, started and viewed, and
\* still belongs to the store that created it.
C31_Witness ==
  /\ gig.status = "in-progress" /\ gig.views = 1
  /\ Len(gig.applications) >= 1
  /\ gig.store = "s1"

\* C32: no step makes gig.applications shorter, and every application
\* already recorded keeps its position and its worker.
C32_ApplicationsAppendOnly ==
  [][/\ Len(gig'.applications) >= Len(gig.applications)
     /\ \A i \in 1..Len(gig.applications) :
          gig'.applications[i].worker = gig.applications[i].worker]_vars

\* C32 witness: wA applied before wB, wB was then accepted and wA rejected
\* with it; both applications are recorded in the order they were saved.
C32_Witness ==
  /\ Len(gig.applications) = 2
  /\ gig.applications[1].worker = "wA" /\ gig.applications[1].status = "rejected"
  /\ gig.applications[2].worker = "wB" /\ gig.applications[2].status = "accepted"

\* C33: in every state of the stored gig assignedAt is set exactly when the
\* status is assigned, in-progress or completed, startedAt exactly when it
\* is in-progress or completed, and completedAt exactly when it is
\* completed.
C33_TimestampsAgree ==
  /\ (gig.assignedAt # Null) <=> (gig.status \in {"assigned", "in-progress", "completed"})
  /\ (gig.startedAt # Null) <=> (gig.status \in {"in-progress", "completed"})
  /\ (gig.completedAt # Null) <=> (gig.status = "completed")

VerifyCalled(q) ==
  /\ q.op = "verify-otp"
  /\ CopiesIn(q, reqs') > CopiesIn(q, reqs)

\* The requests in flight after the step.
InFlightAfter == BagToSet(reqs')

\* C35 as stated: a verifyOTP call on a user whose otp.attempts is 3 or more
\* compares nothing and returns invalid with 'Too many attempts', whatever
\* the candidate; otp.attempts of a stored user never exceeds 3.
C35_Original ==
  [][/\ \A q \in InFlightAfter :
          (VerifyCalled(q) /\ users[q.idx].otp.attempts >= MaxOtpAttempts)
          => /\ ~q.valid /\ q.message = MsgTooManyAttempts
             /\ compared' = compared
     /\ \A i \in DOMAIN users' : users'[i].otp.attempts <= MaxOtpAttempts]_vars

\* C35 amended: a verifyOTP call on a user whose otp.attempts is 3 or more
\* compares nothing, changes nothing and returns invalid, whatever the
\* candidate: with 'Too many attempts' while the stored code has not
\* expired, with 'OTP expired' once it has, with 'No OTP generated' when no
\* code is stored.  A call that compares leaves the document with attempts
\* one higher or with the OTP cleared, and otp.attempts of a stored user
\* never exceeds 3.
C35_AttemptLimit ==
  [][/\ \A q \in InFlightAfter :
          VerifyCalled(q)
          => LET otp == users[q.idx].otp IN
             /\ otp.attempts >= MaxOtpAttempts
                => /\ ~q.valid /\ compared' = compared
                   /\ q.m = LoadUser(users[q.idx])
                   /\ q.message =
                        IF otp.code = Null THEN MsgNoOtp
                        ELSE IF otp.expiresAt < now THEN MsgOtpExpired
                        ELSE MsgTooManyAttempts
             /\ compared' # compared
                => /\ compared' = compared + 1
                   /\ otp.attempts < MaxOtpAttempts
                   /\ IF q.valid THEN q.m.doc.otp = NoOtp
                      ELSE q.m.doc.otp = [otp EXCEPT !.attempts = @ + 1]
     /\ \A i \in DOMAIN users' : users'[i].otp.attempts <= MaxOtpAttempts]_vars

\* C35 witness: after three wrong candidates the right code was refused
\* with 'Too many attempts'; the code is still stored, with 3 attempts.
C35_Witness ==
  /\ last.op = "verify-otp" /\ last.otp = FixedOtp
  /\ last.resp = Response(400, MsgTooManyAttempts)
  /\ users[1].otp.code = FixedOtp /\ users[1].otp.attempts = MaxOtpAttempts
  /\ compared = MaxOtpAttempts

\* C36: once a verifyOTP call has returned valid, every verifyOTP call that
\* follows it returns invalid, whatever the candidate, until generateOTP is
\* called again; the save of a valid verification leaves no code stored.
C36_SingleUse ==
  [][/\ \A q \in InFlightAfter : (VerifyCalled(q) /\ verified) => ~q.valid
     /\ \A q \in InFlight :
          (q.op = "verify-otp" /\ q.valid /\ CopiesIn(q, reqs') < CopiesIn(q, reqs))
          => users'[q.idx].otp.code = Null]_vars

\* C37: under every interleaving of verify-otp requests, no more than 3
\* verifyOTP calls compare their candidate with a code since it was stored.
C37_AttemptLimitAcrossRequests == compared <= MaxOtpAttempts

\* A stored user has this phone number or this e-mail address.
Taken(coll, phone, email) ==
  \E i \in 1..Len(coll) : coll[i].phoneNumber = phone \/ coll[i].email = email

\* This step is the first user.save() of the register request q.
InsertDone(q) ==
  /\ q.op = "register" /\ q.stage = "insert"
  /\ CopiesIn(q, reqs') < CopiesIn(q, reqs)

\* C38: after every step no two stored users share a phoneNumber or an
\* email; a register request that finds its cleaned phone number or its
\* email with a stored user, at its findOne or at its insert, stores no user
\* and goes no further.
C38_UniquePhoneAndEmail ==
  [][/\ \A i, j \in DOMAIN users' :
          (\/ users'[i].phoneNumber = users'[j].phoneNumber
           \/ users'[i].email = users'[j].email) => i = j
     /\ \A q \in InFlightAfter :
          (q.op = "register" /\ q.stage = "insert"
             /\ CopiesIn(q, reqs') > CopiesIn(q, reqs))
          => ~Taken(users, q.phone, q.email)
     /\ \A q \in InFlight :
          (InsertDone(q) /\ Taken(users, q.phone, q.email))
          => /\ users' = users
             /\ last'.resp.status \notin {200, 201} /\ ~last'.created
             /\ \A r \in InFlightAfter : r.op = "register" => r.stage = "insert" \/ r.idx <= Len(users)
     /\ (nOps' = nOps + 1 /\ reqs' = reqs) => users' = users]_vars

\* C38 witness: two requests with one phone number and different e-mail
\* addresses both passed findOne; the first was stored, the insert of the
\* second was refused and it was answered 500.
C38_Witness ==
  /\ last.op = "register" /\ last.resp = Response(500, MsgRegistrationFailed)
  /\ last.docValid
  /\ Len(users) = 1
  /\ users[1].phoneNumber = last.phone /\ users[1].email # last.email

====
